---- MODULE Spec2Model ----
(***************************************************************************)
(* OptimizerWrapper of agilerl/algorithms/core/wrappers.py as a state      *)
(* machine.  Python objects are records with an address (identity) and a   *)
(* value; a raised exception is a result record with ok = FALSE.           *)
(***************************************************************************)
EXTENDS Integers, Sequences, FiniteSets, TLC

VARIABLES wrappers, last, pc

vars == <<wrappers, last, pc>>

\* ---------------------------------------------------------------- bounds

\* Most modules an individual owns, most networks passed, most owner fields.
MaxNets == 2
\* Most optimisation steps an optimizer instance takes.
MaxSteps == 1

\* ------------------------------------------------------------ the universe

Modules == 1..MaxNets

\* Two modules built from one configuration (an actor and its target copy)
\* are value-equal and distinct objects.
ModuleValue(m) == (m + 1) \div 2

AllNames == <<"actor", "critic", "actor_target", "critic_target", "x">>
Names == {AllNames[i] : i \in 1..MaxNets}

Classes == {"Adam", "SGD"}
Kwargs == {1, 2}

\* Addresses of the list objects: the list the caller passes, a second list
\* with the same elements, and the list the constructor itself makes.
ArgListAddr == MaxNets + 1
CopyListAddr == MaxNets + 2
FreshListAddr == MaxNets + 3

ModuleObj(m) == [kind |-> "module", addr |-> m, elems |-> <<m>>]
ListObj(a, s) == [kind |-> "list", addr |-> a, elems |-> s]

SeqsUpTo(S, n) == UNION {[1..k -> S] : k \in 0..n}
InjSeqsUpTo(S, n) == {s \in SeqsUpTo(S, n) : \A i, j \in 1..Len(s) : s[i] = s[j] => i = j}
Prefix(s, n) == [i \in 1..n |-> s[i]]
Range(s) == {s[i] : i \in 1..Len(s)}

\* id(): the identity of an object.
Id(obj) == obj.addr

\* ==: modules compare by value, lists element by element.
ValueEq(a, b) ==
    /\ a.kind = b.kind
    /\ Len(a.elems) = Len(b.elems)
    /\ \A i \in 1..Len(a.elems) : ModuleValue(a.elems[i]) = ModuleValue(b.elems[i])

\* ------------------------------------------------- the optimizer instance

\* optimizer(net.parameters(), **kwargs) and optimizer_cls(opt_args): an
\* instance of class cls over parameter groups, with fresh state.
NewOptimizer(cls, groups) == [cls |-> cls, groups |-> groups, state |-> 0]

Group(net, kwargs) == [params |-> net, kwargs |-> kwargs]

NoWrapper ==
    [exists |-> FALSE, optimizer_cls |-> [kind |-> "type", elems |-> <<>>],
     optimizer_kwargs |-> [kind |-> "dict", elems |-> <<>>], multiagent |-> FALSE,
     networks |-> ListObj(FreshListAddr, <<>>), network_names |-> <<>>,
     optimizer |-> [kind |-> "single", elems |-> <<>>]]

\* ------------------------------------------------------------ construction

\* Matching by == instead of by id().
_match_condition_by_value(multiagent, networks, attr_value) ==
    IF ~multiagent
    THEN \E i \in 1..Len(networks.elems) : ValueEq(attr_value, ModuleObj(networks.elems[i]))
    ELSE ValueEq(attr_value, networks)

\* _match_condition: a field matches when its value IS one of the networks
\* (multiagent off) or IS the networks list (multiagent on).
_match_condition(multiagent, networks, attr_value) ==
    IF ~multiagent
    THEN \E i \in 1..Len(networks.elems) : Id(attr_value) = Id(ModuleObj(networks.elems[i]))
    ELSE Id(attr_value) = Id(networks)

\* _infer_network_attr_names: the names of the container's matching fields,
\* in the order of vars(container).
_infer_network_attr_names(multiagent, networks, container) ==
    LET Matches(f) == _match_condition(multiagent, networks, f.value)
        sel == SelectSeq(container, Matches)
    IN  [i \in 1..Len(sel) |-> sel[i].name]

NamesFoundSkipped(names) == TRUE

\* assert self.network_names
NamesFound(names) == Len(names) > 0

LengthsMatchSkipped(self) == TRUE

\* assert len(self.networks) == len(self.network_names)
LengthsMatch(self) == Len(self.networks.elems) = Len(self.network_names)

AtIndexFirst(x, i) == x.elems[1]

\* x[i] if isinstance(x, list) else x   (i counts from 1 here)
CanIndex(x, i) == x.kind # "list" \/ i <= Len(x.elems)
AtIndex(x, i) == IF x.kind = "list" THEN x.elems[i] ELSE x.elems[1]

Raised(err, built) == [ok |-> FALSE, err |-> err, built |-> built, self |-> NoWrapper]

\* The multi-agent branch: one optimizer per network, in order.  Indexing a
\* class or kwargs list past its end raises after the earlier optimizers
\* were constructed.
InitMultiagent(self) ==
    LET n == Len(self.networks.elems)
        Bad(i) == ~CanIndex(self.optimizer_cls, i) \/ ~CanIndex(self.optimizer_kwargs, i)
        One(i) == NewOptimizer(AtIndex(self.optimizer_cls, i),
                               <<Group(self.networks.elems[i], AtIndex(self.optimizer_kwargs, i))>>)
    IN  IF \E i \in 1..n : Bad(i)
        THEN Raised("IndexError", (CHOOSE i \in 1..n : Bad(i) /\ \A j \in 1..(i - 1) : ~Bad(j)) - 1)
        ELSE [ok |-> TRUE, err |-> "", built |-> n,
              self |-> [self EXCEPT !.optimizer = [kind |-> "list", elems |-> [i \in 1..n |-> One(i)]]]]

\* Several networks under several names: one optimizer over one parameter
\* group per network.
InitPooled(self) ==
    LET n == Len(self.networks.elems)
    IN  IF ~LengthsMatch(self) THEN Raised("AssertionError", 0)
        ELSE IF self.optimizer_cls.kind # "type" THEN Raised("AssertionError", 0)
        ELSE IF \E i \in 1..n : ~CanIndex(self.optimizer_kwargs, i) THEN Raised("IndexError", 0)
        ELSE [ok |-> TRUE, err |-> "", built |-> 1,
              self |-> [self EXCEPT !.optimizer =
                  [kind |-> "single",
                   elems |-> <<NewOptimizer(self.optimizer_cls.elems[1],
                       [i \in 1..n |-> Group(self.networks.elems[i],
                                             AtIndex(self.optimizer_kwargs, i))])>>]]]

\* The remaining case: one optimizer over the parameters of networks[0].
InitSingle(self) ==
    IF self.optimizer_cls.kind # "type" THEN Raised("AssertionError", 0)
    ELSE IF self.optimizer_kwargs.kind # "dict" THEN Raised("AssertionError", 0)
    ELSE IF Len(self.networks.elems) = 0 THEN Raised("IndexError", 0)
    ELSE [ok |-> TRUE, err |-> "", built |-> 1,
          self |-> [self EXCEPT !.optimizer =
              [kind |-> "single",
               elems |-> <<NewOptimizer(self.optimizer_cls.elems[1],
                   <<Group(self.networks.elems[1], self.optimizer_kwargs.elems[1])>>)>>]]]

\* OptimizerWrapper.__init__.  a.network_names.given is FALSE for None.
\* The assert on the type of networks is an assert of a non-empty tuple and
\* never fails, so a list is taken as it is, empty or not.
__init__(a) ==
    LET networks == IF a.networks.kind = "module"
                    THEN ListObj(FreshListAddr, a.networks.elems)
                    ELSE a.networks
        names == IF a.network_names.given
                 THEN a.network_names.elems
                 ELSE _infer_network_attr_names(a.multiagent, networks, a.owner)
        self == [exists |-> TRUE, optimizer_cls |-> a.optimizer_cls,
                 optimizer_kwargs |-> a.optimizer_kwargs, multiagent |-> a.multiagent,
                 networks |-> networks, network_names |-> names,
                 optimizer |-> [kind |-> "single", elems |-> <<>>]]
        multiple_attrs == Len(names) > 1
        multiple_networks == Len(networks.elems) > 1
    IN  IF ~NamesFound(names) THEN Raised("AssertionError", 0)
        ELSE IF a.multiagent THEN InitMultiagent(self)
        ELSE IF multiple_networks /\ multiple_attrs THEN InitPooled(self)
        ELSE InitSingle(self)

\* The topology a wrapper was built in.
Topology(self) ==
    IF self.multiagent THEN "PER_NETWORK"
    ELSE IF Len(self.networks.elems) > 1 /\ Len(self.network_names) > 1 THEN "POOLED"
    ELSE "SINGLE"

\* ---------------------------------------- the optimizer instance's interface

\* Optimizer.state_dict(): the state and each group's keyword configuration.
OptStateDict(opt) ==
    [state |-> opt.state, param_groups |-> [i \in 1..Len(opt.groups) |-> opt.groups[i].kwargs]]

\* Optimizer.load_state_dict(sd) raises unless the groups line up.
OptCanLoad(opt, sd) == Len(sd.param_groups) = Len(opt.groups)

\* Optimizer.load_state_dict(sd): the groups keep their parameters and take
\* the loaded configuration; the state is the loaded state.
OptLoad(opt, sd) ==
    [opt EXCEPT !.state = sd.state,
                !.groups = [i \in 1..Len(opt.groups) |->
                               Group(opt.groups[i].params, sd.param_groups[i])]]

\* Optimizer.step(): one optimisation step.
OptStep(opt) == [opt EXCEPT !.state = opt.state + 1]

\* Optimizer.zero_grad() clears gradients, which are not optimizer state.
OptZeroGrad(opt) == opt

\* ------------------------------------------------------------- the facade

Call(op, i) == [op |-> op, i |-> i]

\* Indexing that hands out the single optimizer instead of raising.
__getitem__unchecked(self, index) ==
    IF self.optimizer.kind # "list"
    THEN [ok |-> TRUE, err |-> "", item |-> <<self.optimizer.elems[1]>>]
    ELSE LET n == Len(self.optimizer.elems)
             j == IF index < 0 THEN index + n ELSE index
         IN  IF j < 0 \/ j >= n THEN [ok |-> FALSE, err |-> "IndexError", item |-> <<>>]
             ELSE [ok |-> TRUE, err |-> "", item |-> <<self.optimizer.elems[j + 1]>>]

\* OptimizerWrapper.__getitem__(index): index is a Python index (from 0,
\* negative from the end).  Only a list can be indexed.
__getitem__(self, index) ==
    LET n == Len(self.optimizer.elems)
        j == IF index < 0 THEN index + n ELSE index
    IN  IF self.optimizer.kind # "list" THEN [ok |-> FALSE, err |-> "TypeError", item |-> <<>>]
        ELSE IF j < 0 \/ j >= n THEN [ok |-> FALSE, err |-> "IndexError", item |-> <<>>]
        ELSE [ok |-> TRUE, err |-> "", item |-> <<self.optimizer.elems[j + 1]>>]

\* OptimizerWrapper.state_dict().
state_dict(self) ==
    IF self.multiagent
    THEN [kind |-> "list",
          elems |-> [i \in 1..Len(self.optimizer.elems) |-> OptStateDict(self.optimizer.elems[i])]]
    ELSE [kind |-> "dict", elems |-> <<OptStateDict(self.optimizer.elems[1])>>]

\* A loop that stops one optimizer early.
LoadPrefixButLast(self, sd, k) ==
    [self EXCEPT !.optimizer.elems =
        [i \in 1..Len(self.optimizer.elems) |->
            IF i < k THEN OptLoad(self.optimizer.elems[i], sd.elems[i])
            ELSE self.optimizer.elems[i]]]

\* The loop of load_state_dict over the first k optimizers.
LoadPrefix(self, sd, k) ==
    [self EXCEPT !.optimizer.elems =
        [i \in 1..Len(self.optimizer.elems) |->
            IF i <= k THEN OptLoad(self.optimizer.elems[i], sd.elems[i])
            ELSE self.optimizer.elems[i]]]

Min(a, b) == IF a < b THEN a ELSE b

LoadCalls(k) == [i \in 1..k |-> Call("load_state_dict", i)]

\* The payload has the shape the wrapper asserts: a list with one entry per
\* optimizer (multiagent), one mapping otherwise.
PayloadFits(self, sd) ==
    IF self.multiagent
    THEN sd.kind = "list" /\ Len(sd.elems) = Len(self.optimizer.elems)
    ELSE sd.kind = "dict"

\* opt.load_state_dict(state_dict[i]) for each optimizer in turn; the first
\* one that raises ends the loop.
LoadEach(self, sd) ==
    LET n == Len(self.optimizer.elems)
        Bad(i) == ~OptCanLoad(self.optimizer.elems[i], sd.elems[i])
    IN  IF \E i \in 1..n : Bad(i)
        THEN LET f == CHOOSE i \in 1..n : Bad(i) /\ \A j \in 1..(i - 1) : ~Bad(j)
             IN  [ok |-> FALSE, err |-> "ValueError", self |-> LoadPrefix(self, sd, f - 1),
                  calls |-> LoadCalls(f)]
        ELSE [ok |-> TRUE, err |-> "", self |-> LoadPrefix(self, sd, n), calls |-> LoadCalls(n)]

\* A load that checks the list's length only after loading what it can.
load_state_dict_late_check(self, sd) ==
    IF self.multiagent /\ sd.kind = "list" /\ Len(sd.elems) # Len(self.optimizer.elems)
    THEN [ok |-> FALSE, err |-> "AssertionError",
          self |-> LoadPrefix(self, sd, Min(Len(sd.elems), Len(self.optimizer.elems))),
          calls |-> LoadCalls(Min(Len(sd.elems), Len(self.optimizer.elems)))]
    ELSE IF ~PayloadFits(self, sd)
    THEN [ok |-> FALSE, err |-> "AssertionError", self |-> self, calls |-> <<>>]
    ELSE LoadEach(self, sd)

\* OptimizerWrapper.load_state_dict(state_dict).
load_state_dict(self, sd) ==
    IF ~PayloadFits(self, sd)
    THEN [ok |-> FALSE, err |-> "AssertionError", self |-> self, calls |-> <<>>]
    ELSE LoadEach(self, sd)

\* OptimizerWrapper.zero_grad().
zero_grad(self) ==
    IF self.multiagent
    THEN [self |-> [self EXCEPT !.optimizer.elems =
                       [i \in 1..Len(self.optimizer.elems) |-> OptZeroGrad(self.optimizer.elems[i])]],
          calls |-> [i \in 1..Len(self.optimizer.elems) |-> Call("zero_grad", i)]]
    ELSE [self |-> [self EXCEPT !.optimizer.elems[1] = OptZeroGrad(self.optimizer.elems[1])],
          calls |-> <<Call("zero_grad", 1)>>]

\* A step that reaches only the first optimizer of the list.
step_first_only(self) ==
    [self |-> [self EXCEPT !.optimizer.elems =
                  [i \in 1..Len(self.optimizer.elems) |->
                      IF i = 1 THEN OptStep(self.optimizer.elems[i]) ELSE self.optimizer.elems[i]]],
     calls |-> IF Len(self.optimizer.elems) = 0 THEN <<>> ELSE <<Call("step", 1)>>]

\* OptimizerWrapper.step().
step(self) ==
    IF self.multiagent
    THEN [self |-> [self EXCEPT !.optimizer.elems =
                       [i \in 1..Len(self.optimizer.elems) |-> OptStep(self.optimizer.elems[i])]],
          calls |-> [i \in 1..Len(self.optimizer.elems) |-> Call("step", i)]]
    ELSE [self |-> [self EXCEPT !.optimizer.elems[1] = OptStep(self.optimizer.elems[1])],
          calls |-> <<Call("step", 1)>>]

\* ------------------------------------------------------------- the inputs

TypeArg(c) == [kind |-> "type", elems |-> <<c>>]
DictArg(k) == [kind |-> "dict", elems |-> <<k>>]
ListArg(s) == [kind |-> "list", elems |-> s]
NamesArg(s) == [given |-> TRUE, elems |-> s]
NoNames == [given |-> FALSE, elems |-> <<>>]

Args(cls, networks, kwargs, names, multiagent, owner) ==
    [optimizer_cls |-> cls, networks |-> networks, optimizer_kwargs |-> kwargs,
     network_names |-> names, multiagent |-> multiagent, owner |-> owner]

NoArgs == Args(TypeArg("Adam"), ListObj(FreshListAddr, <<>>), DictArg(1), NoNames, FALSE, <<>>)

\* networks: one module, or a list of distinct modules.
NetworkArgs ==
    {ModuleObj(m) : m \in Modules}
        \cup {ListObj(ArgListAddr, s) : s \in InjSeqsUpTo(Modules, MaxNets)}

\* What a field of the owner may hold: a module, the list that is passed as
\* networks, or another list with the same elements.
FieldValues(networks) ==
    {ModuleObj(m) : m \in Modules}
        \cup {ListObj(CopyListAddr, networks.elems)}
        \cup (IF networks.kind = "list" THEN {networks} ELSE {})

\* vars(container): fields in definition order, each name once.
Owners(networks) ==
    {[i \in 1..Len(ns) |-> [name |-> ns[i], value |-> vs[i]]] :
        <<ns, vs>> \in {p \in InjSeqsUpTo(Names, MaxNets) \X SeqsUpTo(FieldValues(networks), MaxNets) :
                           Len(p[1]) = Len(p[2])}}

ClsArgs == {TypeArg(c) : c \in Classes} \cup {ListArg(s) : s \in SeqsUpTo(Classes, MaxNets)}
KwargsArgs == {DictArg(k) : k \in Kwargs} \cup {ListArg(s) : s \in SeqsUpTo(Kwargs, MaxNets + 1)}

\* Construction inside the owner's __init__, names inferred.
ArgsResolve(nets) ==
    {Args(TypeArg("Adam"), nets, DictArg(1), NoNames, ma, owner) :
        ma \in BOOLEAN, owner \in Owners(nets)}

\* Construction with explicit names and every shape of class and kwargs.
ArgsShape(nets) ==
    {Args(cls, nets, kwargs, NamesArg(Prefix(AllNames, k)), ma, <<>>) :
        cls \in ClsArgs, kwargs \in KwargsArgs, k \in 0..(MaxNets + 1), ma \in BOOLEAN}

\* The first wrapper of an individual: its first n modules under explicit
\* names, one name for the whole list or one name per module.
ArgsLife ==
    {Args(TypeArg("Adam"), ListObj(ArgListAddr, [i \in 1..t[1] |-> i]), DictArg(1),
          NamesArg(Prefix(AllNames, t[2])), t[3], <<>>) :
        t \in {u \in (0..MaxNets) \X (1..MaxNets) \X BOOLEAN :
                  u[2] = 1 \/ (~u[3] /\ u[2] = u[1])}}

\* The wrapper of a clone: the same modules, names and flag, passed
\* explicitly, with its own keyword configuration.
ArgsClone(self, k) ==
    Args(self.optimizer_cls, self.networks, DictArg(k), NamesArg(self.network_names),
         self.multiagent, <<>>)

\* A serialized optimizer state with ng groups.
SD(s, k, ng) == [state |-> s, param_groups |-> [i \in 1..ng |-> k]]

\* Payloads of load_state_dict: one mapping, or a list of n mappings whose
\* states differ from one to the next.
Payloads ==
    {[kind |-> "dict", elems |-> <<SD(s, 1, ng)>>] : s \in 0..MaxSteps, ng \in 1..MaxNets}
        \cup {[kind |-> "list",
               elems |-> [i \in 1..n |-> SD((s + i - 1) % (MaxSteps + 1), 1, 1)]] :
                 s \in 0..MaxSteps, n \in 0..(MaxNets + 1)}

NoPayload == [kind |-> "none", elems |-> <<>>]

\* ------------------------------------------------------- the state machine

Wrappers == {1, 2}

NoLast ==
    [op |-> "none", w |-> 0, src |-> 0, ok |-> TRUE, err |-> "", built |-> 0, args |-> NoArgs,
     index |-> 0, payload |-> NoPayload, ret |-> NoPayload, item |-> <<>>,
     calls |-> <<>>]

\* w = OptimizerWrapper(...): on an exception no wrapper is bound.
Construct(w, a) ==
    LET r == __init__(a)
    IN  /\ wrappers' = IF r.ok THEN [wrappers EXCEPT ![w] = r.self] ELSE wrappers
        /\ last' = [NoLast EXCEPT !.op = "init", !.w = w, !.ok = r.ok, !.err = r.err,
                                  !.built = r.built, !.args = a]

\* w[index]
GetItem(w, index) ==
    LET r == __getitem__(wrappers[w], index)
    IN  /\ wrappers[w].exists
        /\ last' = [NoLast EXCEPT !.op = "getitem", !.w = w, !.ok = r.ok, !.err = r.err,
                                  !.index = index, !.item = r.item]
        /\ UNCHANGED <<wrappers, pc>>

\* w.step()
Step(w) ==
    LET r == step(wrappers[w])
    IN  /\ wrappers[w].exists
        /\ \A i \in 1..Len(wrappers[w].optimizer.elems) :
               wrappers[w].optimizer.elems[i].state < MaxSteps
        /\ wrappers' = [wrappers EXCEPT ![w] = r.self]
        /\ last' = [NoLast EXCEPT !.op = "step", !.w = w, !.calls = r.calls]
        /\ UNCHANGED pc

\* w.zero_grad()
ZeroGrad(w) ==
    LET r == zero_grad(wrappers[w])
    IN  /\ wrappers[w].exists
        /\ wrappers' = [wrappers EXCEPT ![w] = r.self]
        /\ last' = [NoLast EXCEPT !.op = "zero_grad", !.w = w, !.calls = r.calls]
        /\ UNCHANGED pc

\* w.state_dict()
StateDict(w) ==
    /\ wrappers[w].exists
    /\ last' = [NoLast EXCEPT !.op = "state_dict", !.w = w, !.ret = state_dict(wrappers[w])]
    /\ UNCHANGED <<wrappers, pc>>

\* w.load_state_dict(payload)
LoadStateDict(w, payload) ==
    LET r == load_state_dict(wrappers[w], payload)
    IN  /\ wrappers[w].exists
        /\ wrappers' = [wrappers EXCEPT ![w] = r.self]
        /\ last' = [NoLast EXCEPT !.op = "load_state_dict", !.w = w, !.ok = r.ok, !.err = r.err,
                                  !.payload = payload, !.calls = r.calls]
        /\ UNCHANGED pc

\* dst.load_state_dict(src.state_dict())
Transfer(src, dst) ==
    LET payload == state_dict(wrappers[src])
        r == load_state_dict(wrappers[dst], payload)
    IN  /\ wrappers[src].exists /\ wrappers[dst].exists /\ src # dst
        /\ wrappers' = [wrappers EXCEPT ![dst] = r.self]
        /\ last' = [NoLast EXCEPT !.op = "transfer", !.w = dst, !.src = src, !.ok = r.ok,
                                  !.err = r.err, !.payload = payload, !.calls = r.calls]
        /\ UNCHANGED pc

\* The life of two wrappers over one individual's modules.
Init ==
    /\ wrappers = [w \in Wrappers |-> NoWrapper]
    /\ last = NoLast
    /\ pc = "run"

Build ==
    /\ ~wrappers[1].exists
    /\ \E a \in ArgsLife : Construct(1, a)
    /\ UNCHANGED pc

Clone ==
    /\ wrappers[1].exists /\ ~wrappers[2].exists
    /\ \E k \in Kwargs : Construct(2, ArgsClone(wrappers[1], k))
    /\ UNCHANGED pc

Next ==
    \/ Build
    \/ Clone
    \/ \E w \in Wrappers : Step(w)
    \/ \E w \in Wrappers : ZeroGrad(w)
    \/ \E w \in Wrappers : StateDict(w)
    \/ \E w \in Wrappers, payload \in Payloads : LoadStateDict(w, payload)
    \/ \E w \in Wrappers, index \in (-1)..MaxNets : GetItem(w, index)
    \/ \E src, dst \in Wrappers : Transfer(src, dst)

Spec == Init /\ [][Next]_vars

\* One construction, from every shape of arguments, then indexing.
InitCtor ==
    /\ wrappers = [w \in Wrappers |-> NoWrapper]
    /\ last = NoLast
    /\ pc = "start"

ConstructResolve ==
    /\ pc = "start"
    /\ \E nets \in NetworkArgs : \E a \in ArgsResolve(nets) : Construct(1, a)
    /\ pc' = IF last'.ok THEN "built" ELSE "failed"

ConstructShape ==
    /\ pc = "start"
    /\ \E nets \in NetworkArgs : \E a \in ArgsShape(nets) : Construct(1, a)
    /\ pc' = IF last'.ok THEN "built" ELSE "failed"

Index ==
    /\ pc = "built"
    /\ \E index \in (-1)..MaxNets : GetItem(1, index)

NextCtor == ConstructResolve \/ ConstructShape \/ Index

SpecInit == InitCtor /\ [][NextCtor]_vars

\* ------------------------------------------- what the claims are stated with

\* The wrapper under construction or use.
W == wrappers[1]
A == last.args

\* The list the resolver compares against when multiagent is on: the list
\* that was passed.  A lone module is wrapped in a list no field can hold.
IsTarget(a, value) ==
    IF a.multiagent
    THEN a.networks.kind = "list" /\ value.kind = "list" /\ value.addr = a.networks.addr
    ELSE value.kind = "module" /\ value.addr \in Range(a.networks.elems)

\* The names of the owner's fields holding a target, in field order.
MatchedUpTo[a \in {last.args}, i \in 0..MaxNets] ==
    IF i = 0 \/ i > Len(a.owner) THEN <<>>
    ELSE IF IsTarget(a, a.owner[i].value)
         THEN Append(MatchedUpTo[a, i - 1], a.owner[i].name)
         ELSE MatchedUpTo[a, i - 1]

ExpectedNames(a) ==
    IF a.network_names.given THEN a.network_names.elems ELSE MatchedUpTo[a, Len(a.owner)]

NetworksOf(a) == a.networks.elems

\* C1: a constructed wrapper has a non-empty network_names; with no name
\* (no field matched, or an empty list was passed) construction fails and
\* no optimizer instance was constructed, whatever the flag and the networks.
C1_NamesNeverEmpty ==
    /\ W.exists => Len(W.network_names) > 0
    /\ (last.op = "init" /\ ExpectedNames(A) = <<>>) =>
           (~last.ok /\ last.built = 0 /\ ~W.exists)

\* An owner with fields, none of which holds the list passed with multiagent on.
C1_Witness ==
    /\ last.op = "init" /\ ~last.ok /\ last.built = 0
    /\ ~A.network_names.given /\ Len(A.owner) > 0 /\ A.multiagent
    /\ Len(NetworksOf(A)) > 1

\* C2: inferred names are exactly the owner's fields, in the owner's order,
\* whose value is the same object as a network (multiagent off) or as the
\* networks list (multiagent on); with none, construction fails.
C2_NamesByIdentity ==
    (last.op = "init" /\ ~A.network_names.given) =>
        /\ ExpectedNames(A) = <<>> => ~last.ok
        /\ last.ok => W.network_names = ExpectedNames(A)

\* The owner holds only module 1 under one field; the wrapper is over
\* module 2, which is value-equal to module 1 and another object.
C2_Witness ==
    /\ last.op = "init" /\ ~last.ok /\ ~A.network_names.given /\ ~A.multiagent
    /\ A.networks = ModuleObj(2)
    /\ Len(A.owner) = 1 /\ A.owner[1].value = ModuleObj(1)
    /\ ModuleValue(1) = ModuleValue(2)

\* The instance the multi-agent branch builds for network i.
ExpectedInstance(self, i) ==
    [cls |-> IF self.optimizer_cls.kind = "list"
             THEN self.optimizer_cls.elems[i] ELSE self.optimizer_cls.elems[1],
     groups |-> <<[params |-> self.networks.elems[i],
                   kwargs |-> IF self.optimizer_kwargs.kind = "list"
                              THEN self.optimizer_kwargs.elems[i]
                              ELSE self.optimizer_kwargs.elems[1]]>>,
     state |-> 0]

\* C3: with multiagent on, a constructed wrapper holds len(networks)
\* optimizer instances whatever the number of names, and wrapper[i] is the
\* instance over networks[i] with the class and kwargs at position i when
\* these are lists, the shared ones otherwise.
C3_OnePerNetwork ==
    /\ (W.exists /\ W.multiagent) =>
           /\ W.optimizer.kind = "list"
           /\ Len(W.optimizer.elems) = Len(W.networks.elems)
    /\ (last.op = "getitem" /\ W.multiagent) =>
           LET n == Len(W.networks.elems)
               i == IF last.index < 0 THEN last.index + n ELSE last.index
           IN  (0 <= i /\ i < n) =>
                   (last.ok /\ last.item = <<ExpectedInstance(W, i + 1)>>)

\* wrapper[1] on a wrapper over two networks under one name, built from a
\* list of two different classes and a list of two different kwargs.
C3_Witness ==
    /\ pc = "built" /\ last.op = "getitem" /\ last.ok /\ last.index = 1
    /\ W.multiagent /\ Len(W.networks.elems) = 2 /\ Len(W.network_names) = 1
    /\ W.optimizer_cls.kind = "list" /\ W.optimizer_cls.elems[1] # W.optimizer_cls.elems[2]
    /\ W.optimizer_kwargs.kind = "list"
    /\ W.optimizer_kwargs.elems[1] # W.optimizer_kwargs.elems[2]

\* C4: a wrapper built in the SINGLE topology has exactly one network and
\* one optimizer instance, which covers every module in networks.
C4_SingleHasOneNetwork ==
    (W.exists /\ Topology(W) = "SINGLE") =>
        /\ Len(W.networks.elems) = 1
        /\ Len(W.optimizer.elems) = 1
        /\ Range(W.networks.elems) \subseteq
               {W.optimizer.elems[1].groups[g].params :
                    g \in 1..Len(W.optimizer.elems[1].groups)}

\* C5: a wrapper built in the POOLED topology has as many names as
\* networks and one optimizer instance whose group i holds networks[i] with
\* kwargs[i] (kwargs a list) or the shared kwargs; when the two lengths
\* differ, construction fails and no optimizer instance was constructed.
C5_PooledGroups ==
    /\ (W.exists /\ Topology(W) = "POOLED") =>
           /\ Len(W.networks.elems) = Len(W.network_names)
           /\ W.optimizer.kind = "single" /\ Len(W.optimizer.elems) = 1
           /\ W.optimizer.elems[1].groups =
                  [i \in 1..Len(W.networks.elems) |->
                      [params |-> W.networks.elems[i],
                       kwargs |-> IF W.optimizer_kwargs.kind = "list"
                                  THEN W.optimizer_kwargs.elems[i]
                                  ELSE W.optimizer_kwargs.elems[1]]]
    /\ (/\ last.op = "init" /\ ~A.multiagent
        /\ Len(NetworksOf(A)) > 1 /\ Len(ExpectedNames(A)) > 1
        /\ Len(NetworksOf(A)) # Len(ExpectedNames(A))) =>
           (~last.ok /\ last.built = 0 /\ ~W.exists)

\* Two networks pooled under two names, each group with its own kwargs.
C5_Witness ==
    /\ pc = "built" /\ last.op = "init" /\ last.ok /\ Topology(W) = "POOLED"
    /\ W.optimizer_kwargs.kind = "list"
    /\ W.optimizer.elems[1].groups[1].kwargs # W.optimizer.elems[1].groups[2].kwargs

\* C6: several names or several networks, one shared class and a kwargs
\* list whose length is not the number of networks: construction fails
\* before any optimizer instance is constructed, multiagent on or off.
C6_KwargsCardinality ==
    (/\ last.op = "init"
     /\ (Len(ExpectedNames(A)) > 1 \/ Len(NetworksOf(A)) > 1)
     /\ A.optimizer_cls.kind = "type"
     /\ A.optimizer_kwargs.kind = "list"
     /\ Len(A.optimizer_kwargs.elems) # Len(NetworksOf(A))) =>
        (~last.ok /\ last.built = 0)

\* What no later call may change: the networks, the names, the topology
\* and the number of optimizer instances.
Shape(self) ==
    <<self.exists, self.networks, self.network_names, self.multiagent, Topology(self),
      self.optimizer.kind, Len(self.optimizer.elems)>>

Target == wrappers[last.w]
Source == wrappers[last.src]

\* C7: on a PER_NETWORK wrapper, load_state_dict with a payload that is no
\* list or whose length is not the number of optimizer instances fails,
\* and leaves the state of every optimizer instance as it was.
C7_FailedLoadLoadsNothing ==
    [][(/\ last'.op = "load_state_dict"
        /\ wrappers[last'.w].multiagent
        /\ (last'.payload.kind # "list"
               \/ Len(last'.payload.elems) # Len(wrappers[last'.w].optimizer.elems))) =>
           (~last'.ok /\ wrappers' = wrappers)]_vars

\* A list one entry short, loaded into a wrapper with two optimizers whose
\* state differs from the entry's.
C7_Witness ==
    /\ last.op = "load_state_dict" /\ ~last.ok /\ Target.multiagent
    /\ last.payload.kind = "list" /\ Len(last.payload.elems) = 1
    /\ Len(Target.optimizer.elems) = 2
    /\ last.payload.elems[1] # OptStateDict(Target.optimizer.elems[1])

\* C8: for two wrappers of one topology over the same modules, whatever
\* was called on each, w2.load_state_dict(w1.state_dict()) succeeds and
\* leaves w2.state_dict() equal to w1.state_dict(): a list aligned with
\* networks for PER_NETWORK, one mapping otherwise.
C8_RoundTrip ==
    (/\ last.op = "transfer"
     /\ Topology(Source) = Topology(Target)
     /\ Source.networks.elems = Target.networks.elems) =>
        /\ last.ok
        /\ state_dict(Target) = state_dict(Source)
        /\ \A i \in 1..Len(Source.optimizer.elems) :
               /\ Target.optimizer.elems[i].state = Source.optimizer.elems[i].state
               /\ OptStateDict(Target.optimizer.elems[i]) = OptStateDict(Source.optimizer.elems[i])
        /\ IF Topology(Target) = "PER_NETWORK"
           THEN /\ state_dict(Target).kind = "list"
                /\ Len(state_dict(Target).elems) = Len(Target.networks.elems)
           ELSE /\ state_dict(Target).kind = "dict"
                /\ Len(state_dict(Target).elems) = 1

\* A transfer between two wrappers built with different kwargs, the source
\* holding two optimizers in different states.
C8_Witness ==
    /\ last.op = "transfer" /\ last.ok /\ Target.multiagent
    /\ Len(Source.optimizer.elems) = 2
    /\ Source.optimizer.elems[1].state # Source.optimizer.elems[2].state
    /\ Source.optimizer_kwargs # Target.optimizer_kwargs

\* C9: wrapper[i] returns an optimizer instance only on a PER_NETWORK
\* wrapper; on a SINGLE or POOLED wrapper it fails with a type error for
\* every index and changes nothing.
C9_IndexOnlyPerNetwork ==
    [][last'.op = "getitem" =>
          /\ wrappers' = wrappers
          /\ last'.ok => Topology(wrappers[last'.w]) = "PER_NETWORK"
          /\ Topology(wrappers[last'.w]) # "PER_NETWORK" =>
                 (~last'.ok /\ last'.err = "TypeError" /\ last'.item = <<>>)]_vars

\* Index 0 on a wrapper pooling two networks.
C9_Witness ==
    /\ last.op = "getitem" /\ last.index = 0 /\ ~last.ok
    /\ Topology(Target) = "POOLED"

ExpectedCalls(self, op) ==
    IF self.multiagent THEN [i \in 1..Len(self.optimizer.elems) |-> [op |-> op, i |-> i]]
    ELSE <<[op |-> op, i |-> 1]>>

\* C10: step() and zero_grad() reach every optimizer instance once, in
\* index order, on a PER_NETWORK wrapper and the single instance once
\* otherwise; step, zero_grad, state_dict and load_state_dict change neither
\* the networks, the names, the topology nor the number of instances.
C10_PureDelegation ==
    [][/\ last'.op = "step" =>
             /\ last'.calls = ExpectedCalls(wrappers[last'.w], "step")
             /\ \A i \in 1..Len(wrappers[last'.w].optimizer.elems) :
                    wrappers'[last'.w].optimizer.elems[i] =
                        [wrappers[last'.w].optimizer.elems[i] EXCEPT !.state = @ + 1]
       /\ last'.op = "zero_grad" =>
             /\ last'.calls = ExpectedCalls(wrappers[last'.w], "zero_grad")
             /\ wrappers' = wrappers
       /\ last'.op \in {"step", "zero_grad", "state_dict", "load_state_dict", "transfer"} =>
             \A w \in Wrappers : Shape(wrappers'[w]) = Shape(wrappers[w])]_vars

\* A step of a wrapper holding two optimizers.
C10_Witness ==
    /\ last.op = "step" /\ Target.multiagent /\ Len(Target.optimizer.elems) = 2
    /\ Len(last.calls) = 2

====
